---- MODULE Spec2Model ----
(***************************************************************************)
(* Pointing-and-pinch interaction core of the gesture front-end:           *)
(*   useRaycasting      (hooks/useRaycasting.js)                           *)
(*   usePinchDetection  (hooks/usePinchDetection.js)                       *)
(*   App                (App.jsx: the pinch observer that toggles bulbs)   *)
(*   Bulb               (components/LightsScene.jsx)                       *)
(*   metricsData        (hooks/useMetrics.js)                              *)
(*                                                                         *)
(* Units.  Landmark coordinates are integers in thousandths of the         *)
(* landmark unit (x = 500 is 0.5).  A pinch strength s in [0,1] is kept    *)
(* as s * StrengthScale with StrengthScale = maxDistance - minDistance,    *)
(* so that 1 - clamp((d - min)/(max - min), 0, 1) is an integer.  The      *)
(* input frames are chosen with integral thumb-index distances, and with   *)
(* strengths away from the two thresholds.                                 *)
(*                                                                         *)
(* React.  A render and the passive effects it commits run to completion   *)
(* on the single JS thread, so one action is one render with its effects,  *)
(* in hook order: useRaycasting's effect, usePinchDetection's effect,      *)
(* App's effect.  A closure made in a render sees the state values of      *)
(* that render; a setState made inside an effect is seen by the next       *)
(* render only.                                                            *)
(***************************************************************************)
EXTENDS Integers, Sequences, FiniteSets, TLC

VARIABLES
    landmarks,          \* useHandPython's landmarks state: NULL or a frame
    frameNo,            \* number of frames the landmark source has delivered
    camera,             \* cameraRef.current is set (App.jsx:10,43)
    renderedCamera,     \* cameraRef.current as read by the latest render (App.jsx:17)
    bulbRefs,           \* bulbRefs.current (App.jsx:9, LightsScene.jsx:120-124)
    hitInfo,            \* useRaycasting: hitInfo state
    pointing,           \* useRaycasting: pointing state
    lastHitIdRef,       \* useRaycasting: lastHitIdRef.current
    isPinching,         \* usePinchDetection: isPinching state
    pinchStrength,      \* usePinchDetection: pinchStrength state (scaled)
    lastPinchStateRef,  \* usePinchDetection: lastPinchStateRef.current
    pinchCallbackRef,   \* usePinchDetection: pinchCallbackRef.current
    on,                 \* Bulb: on state, per bulb id
    renderPending,      \* a setState of the last effects has not been rendered yet
    currentSession,     \* metricsData.currentSession (useMetrics.js:16-26)
    events,             \* metricsData.events (useMetrics.js:12)
    fpsHistory,         \* metricsData.fpsHistory (useMetrics.js:13)
    lastFrameTime,      \* metricsData.lastFrameTime (useMetrics.js:14)
    systemMetrics,      \* metricsData.systemMetrics (useMetrics.js:29-34)
    sessionStartTime,   \* module variable sessionStartTime (useMetrics.js:41)
    now,                \* the latest reading of performance.now(), in ticks
    idCounter,          \* number of ids generateId() has handed out
    frameLoop,          \* the frame loops of the mounted hooks and the browser's
                        \* animation-frame callbacks (useMetrics.js:245-259)
    calls,              \* history: number of useMetrics operations called so far
    lastOp,             \* history: the useMetrics operation called last, with its arguments
    delivered,          \* history: the observer invocations, in order
    regCount,           \* history: number of onPinch calls made so far
    riseFall            \* history: shape of the strength sequence seen so far

vars == <<landmarks, frameNo, camera, renderedCamera, bulbRefs, hitInfo, pointing,
          lastHitIdRef, isPinching, pinchStrength, lastPinchStateRef,
          pinchCallbackRef, on, renderPending, currentSession, delivered,
          events, fpsHistory, lastFrameTime, systemMetrics, sessionStartTime, now,
          idCounter, frameLoop, calls, lastOp,
          regCount, riseFall>>

\* the state of useMetrics.js besides currentSession
metricVars == <<events, fpsHistory, lastFrameTime, systemMetrics, sessionStartTime, now,
                idCounter, frameLoop, calls, lastOp>>
\* the state of the interaction core, which no useMetrics operation touches
coreVars == <<landmarks, frameNo, camera, renderedCamera, bulbRefs, hitInfo, pointing,
              lastHitIdRef, isPinching, pinchStrength, lastPinchStateRef, pinchCallbackRef,
              on, renderPending, delivered, regCount, riseFall>>

\* null / undefined, for values that are records or tuples when present
NULL == [null |-> TRUE]
\* a null bulb id (`userData?.id || null`, raycastUtils.js:65); real ids are 1..3
NoId == 0
\* the null returned by calculatePinchDistance; real distances are >= 0
NullDistance == -1

(***************************************************************************)
(* Bounds of the model                                                     *)
(***************************************************************************)
MaxFrames == 4
\* calls in a session that fills the event log and goes past its capacity
MaxLogCalls == 1002
\* calls in a session with the frame loop running, and events it logs
MaxFpsCalls == 11
MaxFpsEvents == 1
\* attempts in a session that only counts hits and misses
MaxAttempts == 10
\* calls in a session that uses every logging operation
MaxMetricCalls == 3
\* calls in a session whose frame-rate window fills and slides
MaxWindowCalls == 62
\* hooks mounted, and frames tracked, in a session of mounts and unmounts
MaxMounts == 2
MaxLoopFrames == 6

(***************************************************************************)
(* Program constants                                                       *)
(***************************************************************************)
minDistance == 20           \* 0.02
maxDistance == 80           \* 0.08
pinchThresholdTenths == 7   \* pinchThreshold = 0.7
releaseThresholdTenths == 5 \* releaseThreshold = 0.5
HandLandmarks == 21         \* landmarks.length < 21

StrengthScale == maxDistance - minDistance

(***************************************************************************)
(* The scene: three bulbs with ids 1..3 (LightsScene.jsx:115-118).  Each   *)
(* mesh is given by the disc its sphere covers in normalized device        *)
(* coordinates (thousandths) under the current camera pose, and by its     *)
(* distance from the ray origin (millimetres).  Bulbs 2 and 3 overlap on   *)
(* screen, bulb 2 in front.                                                *)
(***************************************************************************)
BulbIds == {1, 2, 3}

Mesh(id) ==
    CASE id = 1 -> [id |-> 1, geometry |-> TRUE, cx |-> -600, cy |-> 300, r |-> 100, distance |-> 3400]
      [] id = 2 -> [id |-> 2, geometry |-> TRUE, cx |-> 0,    cy |-> 300, r |-> 120, distance |-> 3000]
      [] id = 3 -> [id |-> 3, geometry |-> TRUE, cx |-> 100,  cy |-> 300, r |-> 100, distance |-> 3600]

\* The imperative handle of a Bulb: { toggle, id, mesh }
BulbHandle(id) == [id |-> id, toggle |-> TRUE, mesh |-> Mesh(id)]

MountedBulbRefs == <<BulbHandle(1), BulbHandle(2), BulbHandle(3)>>

(***************************************************************************)
(* Landmark frames.  A frame is NULL or an array of `length` landmarks, of *)
(* which the model keeps the entries 4 and 8 (NULL when the array has no   *)
(* such entry).  A landmark is a record {x, y, z}.                          *)
(***************************************************************************)
Pt(px, py, pz) == [x |-> px, y |-> py, z |-> pz]

IndexPositions == { Pt(500, 900, 0),    \* points at no bulb
                    Pt(200, 350, 0),    \* points at bulb 1
                    Pt(540, 350, 0) }   \* points at bulbs 2 and 3

\* thumb tip relative to index tip; lengths 10, 30, 45, 60, 100
ThumbOffsets == { Pt(6, 8, 0), Pt(18, 24, 0), Pt(27, 36, 0), Pt(0, 0, 60), Pt(60, 80, 0) }

Plus(p, q) == Pt(p.x + q.x, p.y + q.y, p.z + q.z)

Frame(n, t, i) == [length |-> n, l4 |-> t, l8 |-> i]

FullFrames == { Frame(HandLandmarks, Plus(i, o), i) : i \in IndexPositions, o \in ThumbOffsets }

ShortFrames == { Frame(5, Pt(206, 358, 0), NULL),                   \* no entry 8
                 Frame(9, Pt(206, 358, 0), Pt(200, 350, 0)),        \* entries 4 and 8, 9 landmarks
                 Frame(HandLandmarks, NULL, Pt(200, 350, 0)) }      \* 21 entries, entry 4 null

Frames == {NULL} \cup ShortFrames \cup FullFrames

(***************************************************************************)
(* usePinchDetection                                                       *)
(***************************************************************************)
Max(a, b) == IF a >= b THEN a ELSE b
Min(a, b) == IF a <= b THEN a ELSE b

\* Math.sqrt on the squared distances the frames produce (all perfect squares)
Sqrt(n) == CHOOSE r \in 0..n : r * r <= n /\ (r + 1) * (r + 1) > n

calculatePinchDistance(lm) ==
    IF lm = NULL \/ lm.length < HandLandmarks
    THEN NullDistance
    ELSE LET thumbTip == lm.l4
             indexTip == lm.l8
         IN  IF thumbTip = NULL \/ indexTip = NULL
             THEN NullDistance
             ELSE LET dx == thumbTip.x - indexTip.x
                      dy == thumbTip.y - indexTip.y
                      dz == thumbTip.z - indexTip.z
                  IN  Sqrt(dx * dx + dy * dy + dz * dz)

\* strength = 1 - max(0, min(1, (distance - minDistance) / (maxDistance - minDistance))),
\* scaled by StrengthScale
Strength(distance) ==
    LET normalizedDistance == Max(0, Min(StrengthScale, distance - minDistance))
    IN  StrengthScale - normalizedDistance

\* strength > pinchThreshold
AbovePinchThreshold(strength) == 10 * strength > pinchThresholdTenths * StrengthScale
\* strength < releaseThreshold
BelowReleaseThreshold(strength) == 10 * strength < releaseThresholdTenths * StrengthScale

\* a start test that forgets the state: any strength above the threshold starts a pinch
StartsPinch_IgnoresState(currentlyPinching, strength) == AbovePinchThreshold(strength)

\* the two branches of the hysteresis (usePinchDetection.js:67 and :81)
StartsPinch(currentlyPinching, strength) ==
    ~currentlyPinching /\ AbovePinchThreshold(strength)
\* a hysteresis without the band: released as soon as not above the start threshold
EndsPinch_NoBand(currentlyPinching, strength) ==
    currentlyPinching /\ ~AbovePinchThreshold(strength)
EndsPinch(currentlyPinching, strength) ==
    currentlyPinching /\ BelowReleaseThreshold(strength)

\* a registration that keeps the observer already present
onPinch_FirstWins(current, callback) == IF current = NULL THEN callback ELSE current
\* onPinch(callback): pinchCallbackRef.current = callback
onPinch(current, callback) == callback

\* calculatePinchStrength, as the values it leaves behind and the event it
\* hands to the registered callback ("none" when it calls nothing)
calculatePinchStrength(lm, lastPinchState, callbackRef) ==
    LET distance == calculatePinchDistance(lm)
    IN  IF distance = NullDistance
        THEN [pinchStrength |-> 0, isPinching |-> FALSE,
              lastPinchStateRef |-> lastPinchState, event |-> "none"]
        ELSE LET strength == Strength(distance)
                 currentlyPinching == lastPinchState
                 newPinchState ==
                     IF StartsPinch(currentlyPinching, strength) THEN TRUE
                     ELSE IF EndsPinch(currentlyPinching, strength) THEN FALSE
                     ELSE currentlyPinching
                 type ==
                     IF StartsPinch(currentlyPinching, strength) THEN "pinch_start"
                     ELSE IF EndsPinch(currentlyPinching, strength) THEN "pinch_end"
                     ELSE "none"
             IN  [pinchStrength |-> strength, isPinching |-> newPinchState,
                  lastPinchStateRef |-> newPinchState,
                  event |-> IF callbackRef # NULL THEN type ELSE "none"]

(***************************************************************************)
(* raycastUtils and useRaycasting                                          *)
(***************************************************************************)
\* screenToRay: the device-normalized point the ray goes through
screenToRay(x, y) == [x |-> x * 2 - 1000, y |-> (0 - y) * 2 + 1000]

\* RayVisualizer's `mouse`: the device-normalized point its ray goes through
RayVisualizerMouse(fingerPosition) ==
    [x |-> 0 - (fingerPosition.x * 2 - 1000), y |-> (0 - fingerPosition.y) * 2 + 1000]

\* THREE.Raycaster.intersectObject on one mesh: the ray meets the sphere
Intersects(ndc, mesh) ==
    (ndc.x - mesh.cx) * (ndc.x - mesh.cx) + (ndc.y - mesh.cy) * (ndc.y - mesh.cy)
        <= mesh.r * mesh.r

RECURSIVE SortByDistance(_)
\* the intersections of a set of meshes, nearest first
SortByDistance(ms) ==
    IF ms = {} THEN <<>>
    ELSE LET m == CHOOSE a \in ms : \A b \in ms : a.distance <= b.distance
         IN  <<m>> \o SortByDistance(ms \ {m})

\* getIntersections: raycaster.intersectObjects(objects, false), sorted by distance
getIntersections(ndc, meshes) ==
    SortByDistance({ meshes[i] : i \in { j \in 1..Len(meshes) : Intersects(ndc, meshes[j]) } })

\* a ray caster that tests every mesh, with or without geometry
findIntersectedBulb_NoFilter(cam, x, y, bulbMeshes) ==
    IF ~cam \/ Len(bulbMeshes) = 0
    THEN NULL
    ELSE LET intersections == getIntersections(screenToRay(x, y), bulbMeshes)
         IN  IF Len(intersections) > 0
             THEN [point |-> screenToRay(x, y), distance |-> intersections[1].distance,
                   bulbId |-> intersections[1].id]
             ELSE NULL

\* a ray caster that takes the last intersection instead of the first
findIntersectedBulb_Last(cam, x, y, bulbMeshes) ==
    IF ~cam \/ Len(bulbMeshes) = 0
    THEN NULL
    ELSE LET validMeshes == SelectSeq(bulbMeshes, LAMBDA mesh : mesh # NULL /\ mesh.geometry)
             intersections == getIntersections(screenToRay(x, y), validMeshes)
         IN  IF Len(intersections) > 0
             THEN [point |-> screenToRay(x, y),
                   distance |-> intersections[Len(intersections)].distance,
                   bulbId |-> intersections[Len(intersections)].id]
             ELSE NULL

findIntersectedBulb(cam, x, y, bulbMeshes) ==
    IF ~cam \/ Len(bulbMeshes) = 0
    THEN NULL
    ELSE LET validMeshes == SelectSeq(bulbMeshes, LAMBDA mesh : mesh # NULL /\ mesh.geometry)
         IN  IF Len(validMeshes) = 0
             THEN NULL
             ELSE LET raycaster == screenToRay(x, y)
                      intersections == getIntersections(raycaster, validMeshes)
                  IN  IF Len(intersections) > 0
                      THEN LET closest == intersections[1]
                           IN  [point |-> raycaster, distance |-> closest.distance,
                                bulbId |-> closest.id]
                      ELSE NULL

getFingerTipPosition(lm) ==
    IF lm = NULL \/ lm.l8 = NULL
    THEN NULL
    ELSE [x |-> lm.l8.x, y |-> lm.l8.y, z |-> lm.l8.z]

\* what performRaycast leaves when it finds nothing to cast against
\* (useRaycasting.js:27-32 and :39-44)
NoRaycast_KeepsLast == [hitInfo |-> NULL, pointing |-> pointing, lastHitIdRef |-> lastHitIdRef]
NoRaycast == [hitInfo |-> NULL, pointing |-> FALSE, lastHitIdRef |-> NoId]

\* performRaycast, as the values it leaves behind; seq tells the hitInfo
\* objects of different calls apart
performRaycast(cam, lm, refs, seq) ==
    LET fingerTip == getFingerTipPosition(lm)
    IN  IF ~cam \/ fingerTip = NULL
        THEN NoRaycast
        ELSE LET withMesh == SelectSeq(refs, LAMBDA bulbRef : bulbRef # NULL /\ bulbRef.mesh # NULL)
                 bulbMeshes == [i \in 1..Len(withMesh) |-> withMesh[i].mesh]
             IN  IF Len(bulbMeshes) = 0
                 THEN NoRaycast
                 ELSE LET intersection ==
                              findIntersectedBulb(cam, fingerTip.x, fingerTip.y, bulbMeshes)
                      IN  IF intersection # NULL
                          THEN [hitInfo |-> [bulbId |-> intersection.bulbId,
                                             point |-> intersection.point,
                                             distance |-> intersection.distance,
                                             seq |-> seq],
                                pointing |-> TRUE,
                                lastHitIdRef |-> intersection.bulbId]
                          ELSE [hitInfo |-> NULL, pointing |-> FALSE, lastHitIdRef |-> NoId]

(***************************************************************************)
(* Bulb and App                                                            *)
(***************************************************************************)
\* a toggle that switches on instead of flipping
toggle_SwitchesOn(bulbs, id) == [bulbs EXCEPT ![id] = TRUE]
\* Bulb's handle: toggle() is setOn(prevOn => !prevOn)
toggle(bulbs, id) == [bulbs EXCEPT ![id] = ~bulbs[id]]

\* the observer App registers, closed over the hitInfo of its render
\* (App.jsx:27-39); the bulb states after it has handled pinchEvent
PinchObserver(closure, pinchEvent, refs, bulbs) ==
    IF pinchEvent = "pinch_start" /\ closure.hitInfo # NULL
    THEN LET found == { i \in 1..Len(refs) :
                          refs[i] # NULL /\ refs[i].id = closure.hitInfo.bulbId }
         IN  IF found # {}
             THEN LET targetBulb == refs[CHOOSE i \in found : \A j \in found : i <= j]
                  IN  IF targetBulb.toggle THEN toggle(bulbs, targetBulb.id) ELSE bulbs
             ELSE bulbs
    ELSE bulbs

\* App's effect (App.jsx:26-40) has the dependencies [onPinch, hitInfo]: it runs
\* when the rendered hitInfo is not the one of its last run
AppEffectRuns(callbackRef, renderedHit) ==
    callbackRef = NULL \/ renderedHit # callbackRef.hitInfo

\* ... and registers a new closure over the rendered hitInfo
AppEffect(callbackRef, renderedHit, n) ==
    IF AppEffectRuns(callbackRef, renderedHit)
    THEN onPinch(callbackRef, [id |-> n, hitInfo |-> renderedHit])
    ELSE callbackRef

(***************************************************************************)
(* useMetrics.js: the metrics aggregator.  Times are in ticks of 1/9 ms,    *)
(* distances in thousandths; the values getMetricsSummary rounds to two    *)
(* decimals are held in hundredths, fpsStability in thousandths.           *)
(***************************************************************************)
\* performance.now() is read in ticks of 1/9 ms, so that frames at 30, 50, 60,
\* 90 and 100 per second are a whole number of ticks apart
TicksPerMs == 9

MAX_LOG_ENTRIES == 1000
FPS_SAMPLE_SIZE == 60
DWELL_THRESHOLD == 500
\* 0.5, in thousandths
MISS_DISTANCE_THRESHOLD == 500
\* trackFPS computes the statistics once fpsHistory holds this many samples
MinFpsSamples == 10
\* a null time (startTime, pointingStartTime, pinchStartTime); real times are >= 0
NullTime == -1
\* logMiss's default actualDistance = null; real distances are >= 0
NoDistance == -1

\* JavaScript's truthiness of a time that may be null: null and 0 are falsy
Truthy(t) == t # NullTime /\ t # 0

\* Math.round(num / den) for num >= 0, den > 0
RoundDiv(num, den) == (2 * num + den) \div (2 * den)

RECURSIVE Sum(_)
Sum(seq) == IF seq = <<>> THEN 0 ELSE Head(seq) + Sum(Tail(seq))

\* the currentSession object literal of the module and of both resets
NewSession(startTime) ==
    [startTime |-> startTime, totalAttempts |-> 0, successfulHits |-> 0, misses |-> 0,
     nearMisses |-> 0, dwellTimes |-> <<>>, latencies |-> <<>>,
     pointingStartTime |-> NullTime, lastTargetId |-> NoId]

NoSystemMetrics == [averageFPS |-> 0, fpsStability |-> 0]

\* the module as loaded: metricsData and sessionStartTime
useMetricsLoaded ==
    /\ events = <<>>
    /\ fpsHistory = <<>>
    /\ lastFrameTime = 0
    /\ currentSession = NewSession(NullTime)
    /\ systemMetrics = NoSystemMetrics
    /\ sessionStartTime = 0
    /\ now = 0
    /\ idCounter = 0
    /\ frameLoop = [loops |-> <<>>, scheduled |-> {}, handles |-> 0]
    /\ calls = 0
    /\ lastOp = [op |-> "load"]

\* a log that makes room by dropping the entry it has just been given
addEvent_DropsNewest(log, id, type, data) ==
    LET pushed == Append(log, [id |-> id, type |-> type, timestamp |-> data.timestamp,
                               data |-> data])
    IN  IF Len(pushed) > MAX_LOG_ENTRIES THEN SubSeq(pushed, 1, Len(pushed) - 1) ELSE pushed

\* addEvent(type, data) on the log, with the id generateId() returned
addEvent(log, id, type, data) ==
    LET pushed == Append(log, [id |-> id, type |-> type, timestamp |-> data.timestamp,
                               data |-> data])
    IN  IF Len(pushed) > MAX_LOG_ENTRIES THEN Tail(pushed) ELSE pushed

\* the integer square root of n, known to lie in lo..hi
RECURSIVE SqrtBetween(_, _, _)
SqrtBetween(n, lo, hi) ==
    IF lo = hi THEN lo
    ELSE LET mid == (lo + hi + 1) \div 2
         IN  IF mid * mid <= n THEN SqrtBetween(n, mid, hi) ELSE SqrtBetween(n, lo, mid - 1)

RECURSIVE SumOfSquares(_)
SumOfSquares(seq) ==
    IF seq = <<>> THEN 0 ELSE Head(seq) * Head(seq) + SumOfSquares(Tail(seq))

\* statistics that report the variance over the mean
FpsStatistics_Variance(window) ==
    LET n == Len(window)
        S == Sum(window)
        V == n * SumOfSquares(window) - S * S
    IN  [averageFPS |-> RoundDiv(S, n),
         fpsStability |-> IF S > 0 THEN (1000 * V) \div (n * S) ELSE 1000]

\* trackFPS's statistics of a window: Math.round(mean), and stdDev / mean (1 when
\* the mean is 0) in thousandths, rounded down.  With n samples of sum S,
\* stdDev / mean = sqrt(n * sum of squares - S * S) / S.
FpsStatistics(window) ==
    LET n == Len(window)
        S == Sum(window)
        V == n * SumOfSquares(window) - S * S
    IN  [averageFPS |-> RoundDiv(S, n),
         fpsStability |-> IF S > 0
                          THEN (100 * SqrtBetween(100 * V, 0, 46340)) \div S
                          ELSE 1000]

\* an accuracy cut to two decimals instead of rounded
accuracy_Truncated(session) ==
    IF session.totalAttempts > 0
    THEN (session.successfulHits * 100 * 100) \div session.totalAttempts
    ELSE 0

\* const accuracy, rounded to two decimals, in hundredths
accuracy(session) ==
    IF session.totalAttempts > 0
    THEN RoundDiv(session.successfulHits * 100 * 100, session.totalAttempts)
    ELSE 0

\* const averageLatency / averageDwellTime in ms, rounded to two decimals, in
\* hundredths
average(samples) ==
    IF Len(samples) > 0 THEN RoundDiv(Sum(samples) * 100, Len(samples) * TicksPerMs) ELSE 0

\* a ratio that is 0 while there is no hit
missToHitRatio_ZeroWithoutHits(session) ==
    IF session.successfulHits > 0
    THEN RoundDiv(session.misses * 100, session.successfulHits)
    ELSE 0

\* const missToHitRatio, rounded to two decimals, in hundredths
missToHitRatio(session) ==
    IF session.successfulHits > 0
    THEN RoundDiv(session.misses * 100, session.successfulHits)
    ELSE session.misses * 100

\* getMetricsSummary() of a state of the module, called at time t
getMetricsSummary(session, system, log, startTime, t) ==
    [accuracy |-> accuracy(session),
     totalAttempts |-> session.totalAttempts,
     successfulHits |-> session.successfulHits,
     misses |-> session.misses,
     nearMisses |-> session.nearMisses,
     averageLatency |-> average(session.latencies),
     averageDwellTime |-> average(session.dwellTimes),
     missToHitRatio |-> missToHitRatio(session),
     averageFPS |-> system.averageFPS,
     fpsStability |-> system.fpsStability,
     sessionDuration |-> RoundDiv(t - startTime, 1000 * TicksPerMs),
     totalEvents |-> Len(log)]

\* a cell of the exported text: empty, or a number printed with some decimals
EmptyCell == [empty |-> TRUE]
\* a number printed as it is
Cell(value) == [empty |-> FALSE, value |-> value, digits |-> 0]
\* value.toFixed(digits) of a value held in units of 10^-digits
toFixed(value, digits) == [empty |-> FALSE, value |-> value, digits |-> digits]
\* a time in hundredths of a millisecond, rounded
HundredthsOfMs(ticks) == RoundDiv(ticks * 100, TicksPerMs)

\* a line of the exported text that is plain text ('' is the blank line)
TextLine(text) == [kind |-> "text", text |-> text]
\* `Name,${value},unit,description`
MetricLine(name, value, unit) == [kind |-> "metric", name |-> name, value |-> value, unit |-> unit]

\* the row buildCSVData pushes for an event of the log
EventLine(event) ==
    LET data == event.data
        has(field) == field \in DOMAIN data
    IN  [kind |-> "event",
         id |-> event.id,
         type |-> event.type,
         timestamp |-> toFixed(HundredthsOfMs(event.timestamp), 2),
         targetId |-> IF has("targetId") /\ data.targetId # NoId
                      THEN Cell(data.targetId) ELSE EmptyCell,
         latency |-> IF has("latency") THEN toFixed(HundredthsOfMs(data.latency), 2) ELSE EmptyCell,
         dwellTime |-> IF has("dwellTime") THEN toFixed(HundredthsOfMs(data.dwellTime), 2) ELSE EmptyCell,
         distance |-> IF has("distance") /\ data.distance # NoDistance
                      THEN toFixed(data.distance, 3) ELSE EmptyCell,
         success |-> has("successful") /\ data.successful]

\* buildCSVData(summary): the rows that are joined with '\n'; date is new Date()
buildCSVData(summary, log, date) ==
    <<TextLine("Metric,Value,Unit,Description"),
      MetricLine("Accuracy", summary.accuracy, "%"),
      MetricLine("Total Attempts", summary.totalAttempts, "count"),
      MetricLine("Successful Hits", summary.successfulHits, "count"),
      MetricLine("Misses", summary.misses, "count"),
      MetricLine("Near Misses", summary.nearMisses, "count"),
      MetricLine("Miss-to-Hit Ratio", summary.missToHitRatio, "ratio"),
      MetricLine("Average Latency", summary.averageLatency, "ms"),
      MetricLine("Average Dwell Time", summary.averageDwellTime, "ms"),
      MetricLine("Average FPS", summary.averageFPS, "fps"),
      MetricLine("FPS Stability", summary.fpsStability, "coefficient"),
      MetricLine("Session Duration", summary.sessionDuration, "seconds"),
      MetricLine("Total Events", summary.totalEvents, "count"),
      MetricLine("Timestamp", date, "datetime"),
      TextLine(""),
      TextLine("--- Event Log ---"),
      TextLine("Event ID,Type,Timestamp,Target ID,Latency,Dwell Time,Distance,Success")>>
    \o [i \in 1..Len(log) |-> EventLine(log[i])]

(***************************************************************************)
(* History kept for the properties                                         *)
(***************************************************************************)
\* a frame with all 21 landmarks, thumb and index tip present
ValidFrame(f) == f # NULL /\ f.length = HandLandmarks /\ f.l4 # NULL /\ f.l8 # NULL

\* Shape of the strength sequence since the start: "open" while no sample was
\* above 0.7; "risen" from the first such sample on, while none was below 0.5;
\* "fallen" from the first sample below 0.5 after that, while none is above
\* 0.7 again; "void" once a frame is not valid or the strength rises a second
\* time.
RiseFallNext(shape, f) ==
    IF ~ValidFrame(f) \/ shape = "void" THEN "void"
    ELSE LET s == Strength(calculatePinchDistance(f))
         IN  CASE shape = "open"   -> IF AbovePinchThreshold(s) THEN "risen" ELSE "open"
               [] shape = "risen"  -> IF BelowReleaseThreshold(s) THEN "fallen" ELSE "risen"
               [] shape = "fallen" -> IF AbovePinchThreshold(s) THEN "void" ELSE "fallen"

HitId(h) == IF h = NULL THEN NoId ELSE h.bulbId

\* the record of one observer invocation
Delivery(closure, type, n) ==
    [type |-> type, to |-> closure.id, hit |-> HitId(closure.hitInfo), frame |-> n]

(***************************************************************************)
(* Initial state: App is mounted.  Its first render saw landmarks = null   *)
(* and an empty scene, the two hook effects left the neutral state and     *)
(* App's effect registered the first observer.                             *)
(***************************************************************************)
Init ==
    /\ landmarks = NULL
    /\ frameNo = 0
    /\ camera = FALSE
    /\ renderedCamera = FALSE
    /\ bulbRefs = <<>>
    /\ hitInfo = NULL
    /\ pointing = FALSE
    /\ lastHitIdRef = NoId
    /\ isPinching = FALSE
    /\ pinchStrength = 0
    /\ lastPinchStateRef = FALSE
    /\ pinchCallbackRef = onPinch(NULL, [id |-> 0, hitInfo |-> NULL])
    /\ on = [b \in BulbIds |-> FALSE]
    /\ renderPending = FALSE
    /\ useMetricsLoaded
    /\ delivered = <<>>
    /\ regCount = 1
    /\ riseFall = "open"

(***************************************************************************)
(* Actions                                                                 *)
(***************************************************************************)
\* Canvas onCreated -> handleCameraReady (App.jsx:42-45): a ref, no re-render
CameraReady ==
    /\ ~camera
    /\ camera' = TRUE
    /\ UNCHANGED <<landmarks, frameNo, renderedCamera, bulbRefs, hitInfo, pointing,
                   lastHitIdRef, isPinching, pinchStrength, lastPinchStateRef,
                   pinchCallbackRef, on, renderPending, currentSession, metricVars, delivered,
                   regCount, riseFall>>

\* the three Bulbs mount and their ref callbacks fill bulbRefs.current
BulbsMounted ==
    /\ bulbRefs = <<>>
    /\ bulbRefs' = MountedBulbRefs
    /\ UNCHANGED <<landmarks, frameNo, camera, renderedCamera, hitInfo, pointing,
                   lastHitIdRef, isPinching, pinchStrength, lastPinchStateRef,
                   pinchCallbackRef, on, renderPending, currentSession, metricVars, delivered,
                   regCount, riseFall>>

\* The landmark source delivers frame f: setLandmarks(f), then App renders and
\* its effects run.  null after null is the same state: React renders nothing.
FrameArrives(f) ==
    /\ frameNo < MaxFrames
    /\ frameNo' = frameNo + 1
    /\ riseFall' = RiseFallNext(riseFall, f)
    /\ landmarks' = f
    /\ IF f = NULL /\ landmarks = NULL
       THEN UNCHANGED <<camera, renderedCamera, bulbRefs, hitInfo, pointing,
                        lastHitIdRef, isPinching, pinchStrength, lastPinchStateRef,
                        pinchCallbackRef, on, renderPending, currentSession, metricVars,
                        delivered, regCount>>
       ELSE LET renderedHit == hitInfo
                rc == performRaycast(camera, f, bulbRefs, frameNo + 1)
                pc == calculatePinchStrength(f, lastPinchStateRef, pinchCallbackRef)
                registered == AppEffect(pinchCallbackRef, renderedHit, regCount)
            IN  /\ renderedCamera' = camera
                \* useRaycasting's effect
                /\ hitInfo' = rc.hitInfo
                /\ pointing' = rc.pointing
                /\ lastHitIdRef' = rc.lastHitIdRef
                \* usePinchDetection's effect, calling the observer registered so far
                /\ pinchStrength' = pc.pinchStrength
                /\ isPinching' = pc.isPinching
                /\ lastPinchStateRef' = pc.lastPinchStateRef
                /\ on' = PinchObserver(pinchCallbackRef, pc.event, bulbRefs, on)
                /\ delivered' = IF pc.event = "none" THEN delivered
                                ELSE Append(delivered,
                                            Delivery(pinchCallbackRef, pc.event, frameNo + 1))
                \* App's effect
                /\ pinchCallbackRef' = registered
                /\ regCount' = IF AppEffectRuns(pinchCallbackRef, renderedHit) THEN regCount + 1
                                           ELSE regCount
                /\ renderPending' = (<<hitInfo', pointing', isPinching', pinchStrength', on'>>
                                        # <<renderedHit, pointing, isPinching, pinchStrength, on>>)
                /\ UNCHANGED <<camera, bulbRefs, currentSession, metricVars>>

\* App renders again with the same landmarks (a state set by the last effects,
\* or the camera ref read anew): useRaycasting's effect runs again only if the
\* camera it depends on changed; App's effect runs if hitInfo changed.
Rerender ==
    /\ renderPending \/ camera # renderedCamera
    /\ LET renderedHit == hitInfo
           rc == IF camera # renderedCamera
                 THEN performRaycast(camera, landmarks, bulbRefs, frameNo)
                 ELSE [hitInfo |-> hitInfo, pointing |-> pointing, lastHitIdRef |-> lastHitIdRef]
           registered == AppEffect(pinchCallbackRef, renderedHit, regCount)
       IN  /\ renderedCamera' = camera
           /\ hitInfo' = rc.hitInfo
           /\ pointing' = rc.pointing
           /\ lastHitIdRef' = rc.lastHitIdRef
           /\ pinchCallbackRef' = registered
           /\ regCount' = IF AppEffectRuns(pinchCallbackRef, renderedHit) THEN regCount + 1
                                           ELSE regCount
           /\ renderPending' = (<<hitInfo', pointing'>> # <<renderedHit, pointing>>)
    /\ UNCHANGED <<landmarks, frameNo, camera, bulbRefs, isPinching, pinchStrength,
                   lastPinchStateRef, on, currentSession, metricVars, delivered, riseFall>>

Next ==
    \/ CameraReady
    \/ BulbsMounted
    \/ \E f \in Frames : FrameArrives(f)
    \/ Rerender

Spec == Init /\ [][Next]_vars

(***************************************************************************)
(* The ray caster on its own: useRaycasting's raycast() called once, for   *)
(* every camera, landmark frame and state of the bulb refs, from a neutral *)
(* state and from a state that holds a hit.                                *)
(***************************************************************************)
\* a handle made before the mesh ref was attached (mesh: meshRef.current)
HandleWithoutMesh(id) == [BulbHandle(id) EXCEPT !.mesh = NULL]
\* a handle whose mesh has no geometry yet
HandleWithoutGeometry(id) ==
    [BulbHandle(id) EXCEPT !.mesh = [Mesh(id) EXCEPT !.geometry = FALSE]]

BulbRefStates ==
    { <<>>,
      MountedBulbRefs,
      <<HandleWithoutMesh(1), HandleWithoutMesh(2), HandleWithoutMesh(3)>>,
      <<HandleWithoutGeometry(1), HandleWithoutGeometry(2), HandleWithoutGeometry(3)>>,
      <<NULL, HandleWithoutGeometry(2), BulbHandle(3)>> }

\* what an earlier performRaycast may have left
EarlierRaycasts ==
    { NoRaycast,
      [hitInfo |-> [bulbId |-> 1, point |-> [x |-> -600, y |-> 300],
                    distance |-> Mesh(1).distance, seq |-> 0],
       pointing |-> TRUE, lastHitIdRef |-> 1] }

InitRaycast ==
    /\ landmarks \in Frames
    /\ frameNo = 0
    /\ camera \in BOOLEAN
    /\ renderedCamera = camera
    /\ bulbRefs \in BulbRefStates
    /\ \E e \in EarlierRaycasts :
          /\ hitInfo = e.hitInfo
          /\ pointing = e.pointing
          /\ lastHitIdRef = e.lastHitIdRef
    /\ isPinching = FALSE
    /\ pinchStrength = 0
    /\ lastPinchStateRef = FALSE
    /\ pinchCallbackRef = onPinch(NULL, [id |-> 0, hitInfo |-> NULL])
    /\ on = [b \in BulbIds |-> FALSE]
    /\ renderPending = FALSE
    /\ useMetricsLoaded
    /\ delivered = <<>>
    /\ regCount = 1
    /\ riseFall = "open"

\* raycast(): performRaycast() (useRaycasting.js:89-91)
raycast ==
    /\ frameNo = 0
    /\ frameNo' = 1
    /\ LET rc == performRaycast(camera, landmarks, bulbRefs, 1)
       IN  /\ hitInfo' = rc.hitInfo
           /\ pointing' = rc.pointing
           /\ lastHitIdRef' = rc.lastHitIdRef
    /\ UNCHANGED <<landmarks, camera, renderedCamera, bulbRefs, isPinching, pinchStrength,
                   lastPinchStateRef, pinchCallbackRef, on, renderPending, currentSession, metricVars,
                   delivered, regCount, riseFall>>

SpecRaycast == InitRaycast /\ [][raycast]_vars

(***************************************************************************)
(* The operations of useMetrics.  Each takes t, the value performance.now() *)
(* returns during the call, which is never before the previous reading.    *)
(***************************************************************************)
\* the call reads the clock; the history variables note the call
Noted(op, t) ==
    /\ t >= now
    /\ now' = t
    /\ calls' = calls + 1
    /\ lastOp' = op
    /\ UNCHANGED coreVars

\* a call from outside the frame loops
Called(op, t) ==
    /\ Noted(op, t)
    /\ UNCHANGED frameLoop

logPointingStart(t, targetId) ==
    LET timestamp == t - sessionStartTime
    IN  /\ Called([op |-> "logPointingStart", targetId |-> targetId, timestamp |-> timestamp], t)
        /\ currentSession' = [currentSession EXCEPT !.pointingStartTime = timestamp,
                                                    !.lastTargetId = targetId]
        /\ events' = addEvent(events, idCounter + 1, "POINTING_START",
                              [targetId |-> targetId, timestamp |-> timestamp])
        /\ idCounter' = idCounter + 1
        /\ UNCHANGED <<fpsHistory, lastFrameTime, systemMetrics, sessionStartTime>>

\* const dwellTime = pointingStartTime ? timestamp - pointingStartTime : 0
dwellTimeOf(pointingStartTime, timestamp) ==
    IF Truthy(pointingStartTime) THEN timestamp - pointingStartTime ELSE 0

logPointingEnd(t, targetId, successful) ==
    LET timestamp == t - sessionStartTime
        dwellTime == dwellTimeOf(currentSession.pointingStartTime, timestamp)
    IN  /\ Called([op |-> "logPointingEnd", targetId |-> targetId, timestamp |-> timestamp], t)
        /\ currentSession' =
              [currentSession EXCEPT
                  !.dwellTimes = IF dwellTime > DWELL_THRESHOLD * TicksPerMs
                                 THEN Append(@, dwellTime) ELSE @,
                  !.pointingStartTime = NullTime]
        /\ events' = addEvent(events, idCounter + 1, "POINTING_END",
                              [targetId |-> targetId, timestamp |-> timestamp,
                               dwellTime |-> dwellTime, successful |-> successful])
        /\ idCounter' = idCounter + 1
        /\ UNCHANGED <<fpsHistory, lastFrameTime, systemMetrics, sessionStartTime>>

logPinchStart(t, targetId) ==
    LET timestamp == t - sessionStartTime
    IN  /\ Called([op |-> "logPinchStart", targetId |-> targetId, timestamp |-> timestamp], t)
        /\ events' = addEvent(events, idCounter + 1, "PINCH_START",
                              [targetId |-> targetId, timestamp |-> timestamp])
        /\ idCounter' = idCounter + 1
        /\ UNCHANGED <<currentSession, fpsHistory, lastFrameTime, systemMetrics,
                       sessionStartTime>>

logPinchEnd(t, targetId, successful) ==
    LET timestamp == t - sessionStartTime
    IN  /\ Called([op |-> "logPinchEnd", targetId |-> targetId, timestamp |-> timestamp], t)
        /\ events' = addEvent(events, idCounter + 1, "PINCH_END",
                              [targetId |-> targetId, timestamp |-> timestamp,
                               successful |-> successful])
        /\ idCounter' = idCounter + 1
        /\ UNCHANGED <<currentSession, fpsHistory, lastFrameTime, systemMetrics,
                       sessionStartTime>>

\* const latency = pinchStartTime ? timestamp - pinchStartTime : 0
latencyOf(pinchStartTime, timestamp) ==
    IF Truthy(pinchStartTime) THEN timestamp - pinchStartTime ELSE 0

logToggleSuccess(t, targetId, pinchStartTime) ==
    LET timestamp == t - sessionStartTime
        latency == latencyOf(pinchStartTime, timestamp)
    IN  /\ Called([op |-> "logToggleSuccess", targetId |-> targetId, timestamp |-> timestamp,
                   pinchStartTime |-> pinchStartTime], t)
        /\ currentSession' =
              [currentSession EXCEPT
                  !.successfulHits = @ + 1,
                  !.totalAttempts = @ + 1,
                  !.latencies = IF latency > 0 THEN Append(@, latency) ELSE @]
        /\ events' = addEvent(events, idCounter + 1, "TOGGLE_SUCCESS",
                              [targetId |-> targetId, timestamp |-> timestamp,
                               latency |-> latency])
        /\ idCounter' = idCounter + 1
        /\ UNCHANGED <<fpsHistory, lastFrameTime, systemMetrics, sessionStartTime>>

\* a near-miss test that takes a distance of 0 for an absent one
isNearMiss_Truthy(actualDistance) ==
    actualDistance # NoDistance /\ actualDistance # 0
        /\ actualDistance <= MISS_DISTANCE_THRESHOLD

\* const isNearMiss = actualDistance !== null && actualDistance <= MISS_DISTANCE_THRESHOLD
isNearMiss(actualDistance) ==
    actualDistance # NoDistance /\ actualDistance <= MISS_DISTANCE_THRESHOLD

\* a logMiss that counts the miss but not the attempt
logMiss_NoAttempt(t, attemptedTargetId, actualDistance) ==
    LET timestamp == t - sessionStartTime
    IN  /\ Called([op |-> "logMiss", targetId |-> attemptedTargetId, timestamp |-> timestamp,
                   distance |-> actualDistance], t)
        /\ currentSession' =
              [currentSession EXCEPT
                  !.misses = @ + 1,
                  !.nearMisses = IF isNearMiss(actualDistance) THEN @ + 1 ELSE @]
        /\ events' = addEvent(events, idCounter + 1, "MISS",
                              [targetId |-> attemptedTargetId, timestamp |-> timestamp,
                               distance |-> actualDistance,
                               nearMiss |-> isNearMiss(actualDistance)])
        /\ idCounter' = idCounter + 1
        /\ UNCHANGED <<fpsHistory, lastFrameTime, systemMetrics, sessionStartTime>>

logMiss(t, attemptedTargetId, actualDistance) ==
    LET timestamp == t - sessionStartTime
    IN  /\ Called([op |-> "logMiss", targetId |-> attemptedTargetId, timestamp |-> timestamp,
                   distance |-> actualDistance], t)
        /\ currentSession' =
              [currentSession EXCEPT
                  !.misses = @ + 1,
                  !.totalAttempts = @ + 1,
                  !.nearMisses = IF isNearMiss(actualDistance) THEN @ + 1 ELSE @]
        /\ events' = addEvent(events, idCounter + 1, "MISS",
                              [targetId |-> attemptedTargetId, timestamp |-> timestamp,
                               distance |-> actualDistance,
                               nearMiss |-> isNearMiss(actualDistance)])
        /\ idCounter' = idCounter + 1
        /\ UNCHANGED <<fpsHistory, lastFrameTime, systemMetrics, sessionStartTime>>

\* what resetMetrics assigns, reading the clock as t
resetMetricsAssigns(t) ==
    /\ events' = <<>>
    /\ fpsHistory' = <<>>
    /\ currentSession' = NewSession(t)
    /\ sessionStartTime' = t
    /\ UNCHANGED <<lastFrameTime, systemMetrics, idCounter>>

resetMetrics(t) ==
    /\ Called([op |-> "resetMetrics"], t)
    /\ resetMetricsAssigns(t)

\* a console reset that restarts the session clock and keeps the log
resetGestureMetrics_KeepsLog(t) ==
    /\ Called([op |-> "resetGestureMetrics"], t)
    /\ currentSession' = NewSession(t)
    /\ sessionStartTime' = t
    /\ UNCHANGED <<events, fpsHistory, lastFrameTime, systemMetrics, idCounter>>

\* window.resetGestureMetrics
resetGestureMetrics(t) ==
    /\ Called([op |-> "resetGestureMetrics"], t)
    /\ events' = <<>>
    /\ currentSession' = NewSession(t)
    /\ sessionStartTime' = t
    /\ UNCHANGED <<fpsHistory, lastFrameTime, systemMetrics, idCounter>>

\* a frame tracker that makes room by dropping the sample it has just been given
trackFPS_DropsNewest(t) ==
    LET deltaTime == t - lastFrameTime
        fps == (1000 * TicksPerMs) \div deltaTime
        pushed == Append(fpsHistory, fps)
        window == IF Len(pushed) > FPS_SAMPLE_SIZE THEN fpsHistory ELSE pushed
    IN  /\ deltaTime > 0
        /\ Noted([op |-> "trackFPS", fps |-> fps], t)
        /\ fpsHistory' = window
        /\ systemMetrics' = IF Len(window) >= MinFpsSamples
                            THEN FpsStatistics(window)
                            ELSE systemMetrics
        /\ lastFrameTime' = t
        /\ UNCHANGED <<events, currentSession, sessionStartTime, idCounter>>

\* trackFPS, called from the animation-frame loop; t is later than the last frame
trackFPS(t) ==
    LET deltaTime == t - lastFrameTime
        fps == (1000 * TicksPerMs) \div deltaTime
        pushed == Append(fpsHistory, fps)
        window == IF Len(pushed) > FPS_SAMPLE_SIZE THEN Tail(pushed) ELSE pushed
    IN  /\ deltaTime > 0
        /\ Noted([op |-> "trackFPS", fps |-> fps], t)
        /\ fpsHistory' = window
        /\ systemMetrics' = IF Len(window) >= MinFpsSamples
                            THEN FpsStatistics(window)
                            ELSE systemMetrics
        /\ lastFrameTime' = t
        /\ UNCHANGED <<events, currentSession, sessionStartTime, idCounter>>

\* exportToCSV: the text handed to the download link; no state of the module changes
exportToCSV(t) ==
    /\ Called([op |-> "exportToCSV",
               rows |-> buildCSVData(getMetricsSummary(currentSession, systemMetrics, events,
                                                       sessionStartTime, t),
                                     events, t)], t)
    /\ UNCHANGED <<events, fpsHistory, lastFrameTime, currentSession, systemMetrics,
                   sessionStartTime, idCounter>>

(***************************************************************************)
(* A session with the frame loop running: frames arrive 10 or 20 ms apart, *)
(* a few events are logged between frames, and either reset may be called  *)
(* at any time.                                                            *)
(***************************************************************************)
FrameTimes == {10 * TicksPerMs, 20 * TicksPerMs}

FpsFrame ==
    /\ calls < MaxFpsCalls
    /\ \E dt \in FrameTimes : trackFPS(now + dt)
    /\ UNCHANGED frameLoop

FpsPointingStart ==
    /\ calls < MaxFpsCalls
    /\ Len(events) < MaxFpsEvents
    /\ logPointingStart(now, 1)

FpsToggleSuccess ==
    /\ calls < MaxFpsCalls
    /\ Len(events) < MaxFpsEvents
    /\ logToggleSuccess(now, 1, NullTime)

FpsReset ==
    /\ calls < MaxFpsCalls
    /\ resetMetrics(now)

FpsConsoleReset ==
    /\ calls < MaxFpsCalls
    /\ resetGestureMetrics(now)

NextFps == FpsFrame \/ FpsPointingStart \/ FpsToggleSuccess \/ FpsReset \/ FpsConsoleReset

SpecFps == Init /\ [][NextFps]_vars

(***************************************************************************)
(* A long session: pinches are logged, start and end in turn, one call per *)
(* millisecond, until the event log has gone past its capacity.            *)
(***************************************************************************)
LastEventType == IF events = <<>> THEN "none" ELSE events[Len(events)].type

LongPinchStart ==
    /\ calls < MaxLogCalls
    /\ LastEventType # "PINCH_START"
    /\ logPinchStart(now + TicksPerMs, 2)

LongPinchEnd ==
    /\ calls < MaxLogCalls
    /\ LastEventType = "PINCH_START"
    /\ logPinchEnd(now + TicksPerMs, 2, TRUE)

NextLog == LongPinchStart \/ LongPinchEnd

SpecLog == Init /\ [][NextLog]_vars

(***************************************************************************)
(* A session of attempts: every millisecond a hit or a miss is recorded.   *)
(***************************************************************************)
AttemptHit ==
    /\ calls < MaxAttempts
    /\ logToggleSuccess(now + TicksPerMs, 1, NullTime)

AttemptMiss ==
    /\ calls < MaxAttempts
    /\ logMiss(now + TicksPerMs, NoId, NoDistance)

NextCount == AttemptHit \/ AttemptMiss

SpecCount == Init /\ [][NextCount]_vars

(***************************************************************************)
(* A short session that uses every logging operation, with every kind of   *)
(* argument, the calls 0, 300 or 600 ms apart.                             *)
(***************************************************************************)
CallTimes == {0, 300 * TicksPerMs, 600 * TicksPerMs}
\* the targets pointed at
PointedTargets == {1, 2}
\* actualDistance: absent, 0, at the threshold, just above it, far
MissDistances == {NoDistance, 0, 500, 501, 2000}
\* pinchStartTime, a session time: absent, or not after the call
PinchStartTimes(timestamp) == {NullTime} \cup {q \in {0, 300 * TicksPerMs} : q <= timestamp}

MetricPointingStart ==
    /\ calls < MaxMetricCalls
    /\ \E dt \in CallTimes : \E targetId \in PointedTargets : logPointingStart(now + dt, targetId)

MetricPointingEnd ==
    /\ calls < MaxMetricCalls
    /\ \E dt \in CallTimes : \E targetId \in PointedTargets : logPointingEnd(now + dt, targetId, FALSE)

MetricToggleSuccess ==
    /\ calls < MaxMetricCalls
    /\ \E dt \in CallTimes :
          \E q \in PinchStartTimes(now + dt - sessionStartTime) :
              logToggleSuccess(now + dt, 1, q)

MetricMiss ==
    /\ calls < MaxMetricCalls
    /\ \E dt \in CallTimes : \E d \in MissDistances : logMiss(now + dt, NoId, d)

MetricReset ==
    /\ calls < MaxMetricCalls
    /\ \E dt \in CallTimes : resetMetrics(now + dt)

MetricConsoleReset ==
    /\ calls < MaxMetricCalls
    /\ \E dt \in CallTimes : resetGestureMetrics(now + dt)

MetricExport ==
    /\ calls < MaxMetricCalls
    /\ \E dt \in CallTimes : exportToCSV(now + dt)

NextMetrics ==
    \/ MetricPointingStart
    \/ MetricPointingEnd
    \/ MetricToggleSuccess
    \/ MetricMiss
    \/ MetricReset
    \/ MetricConsoleReset
    \/ MetricExport

SpecMetrics == Init /\ [][NextMetrics]_vars

(***************************************************************************)
(* A session in which the frame-rate window fills and slides.  The display *)
(* paces the frames steadily at 60 per second, or alternately at 30 and 90 *)
(* per second; the session is reset at most once, at any time, and the     *)
(* display may pick its pace anew after the reset.                         *)
(***************************************************************************)
\* the ticks between two frames at a rate of fps
FrameTime(fps) == (1000 * TicksPerMs) \div fps

\* the times the next frame may take: free for the first sample of a window,
\* then 30 follows 90, 90 follows 30, and 60 follows 60
PacedFrameTimes ==
    IF fpsHistory = <<>>
    THEN {FrameTime(60), FrameTime(30)}
    ELSE LET last == fpsHistory[Len(fpsHistory)]
         IN  CASE last = 30 -> {FrameTime(90)}
               [] last = 90 -> {FrameTime(30)}
               [] OTHER     -> {FrameTime(last)}

WindowFrame ==
    /\ calls < MaxWindowCalls
    /\ \E dt \in PacedFrameTimes : trackFPS(now + dt)
    /\ UNCHANGED frameLoop

WindowReset ==
    /\ calls < MaxWindowCalls
    /\ currentSession.startTime = NullTime
    /\ resetMetrics(now)

NextWindow == WindowFrame \/ WindowReset

SpecWindow == Init /\ [][NextWindow]_vars

(***************************************************************************)
(* The frame loop of useMetrics' effect.  Every mounted hook runs a loop of *)
(* its own: trackFrame calls trackFPS and asks the browser for the next     *)
(* animation frame; the effect's cleanup cancels the callback that is       *)
(* pending.  frameLoop.loops[i] holds loop i's animationId (0: undefined),  *)
(* whether its cleanup has run, and how often it has called trackFPS;       *)
(* frameLoop.scheduled holds the callbacks the browser has yet to run, and  *)
(* frameLoop.handles the number of handles requestAnimationFrame has given. *)
(***************************************************************************)
\* cancelAnimationFrame that cancels nothing
cancelAnimationFrame_Nothing(scheduled, handle) == scheduled

\* cancelAnimationFrame(handle) on the browser's pending callbacks
cancelAnimationFrame(scheduled, handle) == { c \in scheduled : c.handle # handle }

\* trackFrame of loop i at time t: trackFPS(), then
\* animationId = requestAnimationFrame(trackFrame)
trackFrame(i, loops, scheduled, t) ==
    /\ trackFPS(t)
    /\ frameLoop' =
          [loops |-> [loops EXCEPT ![i].animationId = frameLoop.handles + 1,
                                   ![i].frames = @ + 1],
           scheduled |-> scheduled \cup {[loop |-> i, handle |-> frameLoop.handles + 1]},
           handles |-> frameLoop.handles + 1]

\* a component that uses the hook mounts: the effect declares animationId and
\* calls trackFrame()
Mount ==
    /\ Len(frameLoop.loops) < MaxMounts
    /\ calls < MaxLoopFrames
    /\ \E dt \in FrameTimes :
          trackFrame(Len(frameLoop.loops) + 1,
                     Append(frameLoop.loops,
                            [animationId |-> 0, stopped |-> FALSE, frames |-> 0]),
                     frameLoop.scheduled, now + dt)

\* the browser runs a pending callback
AnimationFrame ==
    /\ calls < MaxLoopFrames
    /\ \E c \in frameLoop.scheduled : \E dt \in FrameTimes :
          trackFrame(c.loop, frameLoop.loops, frameLoop.scheduled \ {c}, now + dt)

\* the component unmounts: the effect's cleanup runs
Cleanup ==
    \E i \in 1..Len(frameLoop.loops) :
        /\ ~frameLoop.loops[i].stopped
        /\ frameLoop' =
              [frameLoop EXCEPT
                  !.loops[i].stopped = TRUE,
                  !.scheduled = IF frameLoop.loops[i].animationId # 0
                                THEN cancelAnimationFrame(@, frameLoop.loops[i].animationId)
                                ELSE @]
        /\ UNCHANGED <<currentSession, events, fpsHistory, lastFrameTime, systemMetrics,
                       sessionStartTime, now, idCounter, calls, lastOp, coreVars>>

NextLoop == Mount \/ AnimationFrame \/ Cleanup

SpecLoop == Init /\ [][NextLoop]_vars

(***************************************************************************)
(* Properties                                                              *)
(***************************************************************************)
Last(q) == q[Len(q)]
Types(q) == [i \in 1..Len(q) |-> q[i].type]
\* this step invoked the observer
Delivers == Len(delivered') = Len(delivered) + 1
\* this step processed a frame of the landmark source
FrameStep == frameNo' = frameNo + 1

\* C1: isPinching changes from false to true only on a frame whose strength is
\* above 0.7, and from true to false only on a frame whose strength is below 0.5.
C1_FlipsOnlyAcrossThresholds ==
    [][ /\ (~isPinching /\ isPinching') => AbovePinchThreshold(pinchStrength')
        /\ (isPinching /\ ~isPinching') => BelowReleaseThreshold(pinchStrength') ]_vars

\* C2: the observer is invoked exactly once, with pinch_start, on each change
\* of isPinching from false to true, exactly once, with pinch_end, on each
\* change from true to false, and not at all on a step that leaves isPinching
\* as it was.
C2_OncePerEdge ==
    [][ IF ~isPinching /\ isPinching'
        THEN Delivers /\ Last(delivered').type = "pinch_start"
        ELSE IF isPinching /\ ~isPinching'
        THEN Delivers /\ Last(delivered').type = "pinch_end"
        ELSE delivered' = delivered ]_vars

\* C3: from the Open state, over valid 21-landmark frames, no transition occurs
\* before the strength first exceeds 0.7, exactly one (pinch_start) from then
\* until it first falls below 0.5, and exactly two (pinch_start, pinch_end)
\* from then on, however many samples lie in between.
C3_RiseThenFallIsTwoTransitions ==
    /\ riseFall = "open"   => Types(delivered) = <<>>
    /\ riseFall = "risen"  => Types(delivered) = <<"pinch_start">>
    /\ riseFall = "fallen" => Types(delivered) = <<"pinch_start", "pinch_end">>

\* a rise and a fall with samples in between and after
C3_Witness ==
    /\ riseFall = "fallen"
    /\ Len(delivered) = 2
    /\ delivered[2].frame >= delivered[1].frame + 2
    /\ frameNo > delivered[2].frame

\* C4: a frame with a null pinch distance that arrives while pinching forces
\* the strength to 0 and the state to Open, and fires pinch_end to the observer.
C4_NullFrameFiresPinchEnd ==
    [][ (FrameStep /\ isPinching /\ calculatePinchDistance(landmarks') = NullDistance)
        => /\ pinchStrength' = 0
           /\ ~isPinching'
           /\ Delivers
           /\ Last(delivered').type = "pinch_end" ]_vars

\* C5: whenever the landmarks are null, the derived state is neutral: no hit,
\* not pointing, no remembered hit id, not pinching, strength 0.
C5_NullLandmarksNeutral ==
    landmarks = NULL =>
        /\ hitInfo = NULL
        /\ ~pointing
        /\ lastHitIdRef = NoId
        /\ ~isPinching
        /\ pinchStrength = 0

\* a null frame arrived while a bulb was hit and a pinch was held
C5_Witness ==
    /\ landmarks = NULL
    /\ frameNo > 0
    /\ pinchCallbackRef.hitInfo # NULL
    /\ lastPinchStateRef

\* C6: a frame of fewer than 21 landmarks gives a null pinch distance, a null
\* hit and pointing false.
C6_ShortFrameNeutral ==
    (landmarks # NULL /\ landmarks.length < HandLandmarks) =>
        /\ calculatePinchDistance(landmarks) = NullDistance
        /\ hitInfo = NULL
        /\ ~pointing

\* C7: the hit the observer consults on a pinch_start is the hit of the ray
\* cast of the frame that produced the pinch_start.
C7_PinchStartUsesCurrentHit ==
    [][ (Delivers /\ Last(delivered').type = "pinch_start")
        => Last(delivered').hit = HitId(hitInfo') ]_vars

C9_PinchStartRecorded ==
    [][ (Delivers /\ Last(delivered').type = "pinch_start")
        => IF Last(delivered').hit = NoId
           THEN /\ currentSession'.misses = currentSession.misses + 1
                /\ currentSession'.totalAttempts = currentSession.totalAttempts + 1
           ELSE currentSession'.successfulHits = currentSession.successfulHits + 1 ]_vars

\* C10: every transition is delivered to the observer of the latest onPinch
\* call made before it; a registration installs the observer it was given and,
\* made outside a frame's classification, leaves pinching state and strength
\* as they were.
C10_LastRegistrationWins ==
    [][ /\ Delivers => Last(delivered').to = regCount - 1
        /\ regCount' # regCount => pinchCallbackRef'.id = regCount
        /\ (regCount' # regCount /\ ~FrameStep)
              => UNCHANGED <<isPinching, pinchStrength, lastPinchStateRef>> ]_vars

\* a transition was delivered to the third observer registered
C10_Witness ==
    /\ regCount >= 3
    /\ \E i \in 1..Len(delivered) : delivered[i].to = 2

\* the targets usable as candidates: a ref with a mesh that has a geometry
Candidates == { i \in 1..Len(bulbRefs) :
                  bulbRefs[i] # NULL /\ bulbRefs[i].mesh # NULL /\ bulbRefs[i].mesh.geometry }
\* ndc = (2x - 1, 1 - 2y) of the index fingertip
FingertipNdc == [x |-> 2 * landmarks.l8.x - 1000, y |-> 1000 - 2 * landmarks.l8.y]
HasFingertip == landmarks # NULL /\ landmarks.l8 # NULL
\* the candidates the ray through the fingertip meets
RayHits == IF HasFingertip
           THEN { i \in Candidates : Intersects(FingertipNdc, bulbRefs[i].mesh) }
           ELSE {}

\* C11: the ray cast leaves hit null and pointing false when there is no
\* camera, no index fingertip, no candidate target (none, or none with a usable
\* mesh and geometry) or no intersection; otherwise it leaves a hit with the id,
\* the hit point and the distance of a target the ray meets.
C11_NullOrHit ==
    frameNo = 1 =>
        IF ~camera \/ ~HasFingertip \/ Candidates = {} \/ RayHits = {}
        THEN hitInfo = NULL /\ ~pointing
        ELSE /\ hitInfo # NULL
             /\ pointing
             /\ hitInfo.point = FingertipNdc
             /\ \E i \in RayHits : /\ hitInfo.bulbId = bulbRefs[i].id
                                   /\ hitInfo.distance = bulbRefs[i].mesh.distance

\* bulb 3 is hit although bulb 1's ref is null and bulb 2 has no geometry
C11_Witness ==
    /\ frameNo = 1
    /\ bulbRefs = <<NULL, HandleWithoutGeometry(2), BulbHandle(3)>>
    /\ hitInfo # NULL
    /\ hitInfo.bulbId = 3

\* C12: when the ray meets several targets the hit is the one nearest to the
\* ray origin.
C12_NearestHit ==
    (frameNo = 1 /\ hitInfo # NULL) =>
        \A i \in RayHits : hitInfo.distance <= bulbRefs[i].mesh.distance

\* the ray meets bulbs 2 and 3 and the hit is bulb 2, the nearer one
C12_Witness ==
    /\ frameNo = 1
    /\ Cardinality(RayHits) = 2
    /\ hitInfo # NULL
    /\ hitInfo.bulbId = 2
    /\ \E i \in RayHits : bulbRefs[i].mesh.distance > hitInfo.distance

\* C13: the event log holds at most MAX_LOG_ENTRIES entries, in insertion
\* order; it holds the most recent insertions, so that an insertion into a full
\* log evicts exactly the oldest entry and the newest entry is last.  (Ids are
\* insertion numbers.)
C13_LogKeepsNewest ==
    /\ Len(events) <= MAX_LOG_ENTRIES
    /\ Len(events) = Min(idCounter, MAX_LOG_ENTRIES)
    /\ \A i \in 1..Len(events) : events[i].id = idCounter - Len(events) + i

\* capacity + 1 insertions: the first entry is gone, the last one is the newest
C13_Witness ==
    /\ idCounter = MAX_LOG_ENTRIES + 1
    /\ Len(events) = MAX_LOG_ENTRIES
    /\ events[1].id = 2
    /\ events[Len(events)].id = MAX_LOG_ENTRIES + 1

\* the summary of a session in which nothing has happened yet
FreshSummary ==
    [accuracy |-> 0, totalAttempts |-> 0, successfulHits |-> 0, misses |-> 0,
     nearMisses |-> 0, averageLatency |-> 0, averageDwellTime |-> 0, missToHitRatio |-> 0,
     averageFPS |-> 0, fpsStability |-> 0, sessionDuration |-> 0, totalEvents |-> 0]

\* C14: right after resetMetrics the event log and the frame-rate window are
\* empty, every counter is 0, the sample lists are empty, no pointing start is
\* pending, the session clock has restarted, and getMetricsSummary reports
\* nothing computed before the reset, averageFPS and fpsStability included.
C14_ResetClearsAll ==
    lastOp.op = "resetMetrics" =>
        /\ events = <<>>
        /\ fpsHistory = <<>>
        /\ currentSession = NewSession(now)
        /\ sessionStartTime = now
        /\ getMetricsSummary(currentSession, systemMetrics, events, sessionStartTime, now)
              = FreshSummary

\* C15: a console reset leaves the aggregator as resetMetrics would have left it.
C15_ConsoleResetAsReset ==
    [][ lastOp'.op = "resetGestureMetrics" => resetMetricsAssigns(now') ]_vars

\* C16: every logMiss adds 1 to misses and to totalAttempts; it adds 1 to
\* nearMisses exactly when a distance is supplied and is at most 0.5 (0
\* included), and leaves nearMisses alone otherwise.
C16_MissCounted ==
    [][ lastOp'.op = "logMiss" =>
          /\ currentSession'.misses = currentSession.misses + 1
          /\ currentSession'.totalAttempts = currentSession.totalAttempts + 1
          /\ currentSession'.nearMisses =
                IF lastOp'.distance # NoDistance /\ lastOp'.distance <= 500
                THEN currentSession.nearMisses + 1
                ELSE currentSession.nearMisses ]_vars

\* a miss at distance 0 has been counted as a near miss
C16_Witness ==
    /\ lastOp.op = "logMiss"
    /\ lastOp.distance = 0
    /\ currentSession.misses = 1
    /\ currentSession.nearMisses = 1

\* the number of events of a type in the log
CountOf(type) == Cardinality({ i \in 1..Len(events) : events[i].type = type })
\* the summary as read in the current state
Summary == getMetricsSummary(currentSession, systemMetrics, events, sessionStartTime, now)

\* C17: with h hits and m misses recorded, accuracy is 100 * h / (h + m)
\* rounded to two decimals (half up), and 0 when h + m = 0.
C17_Accuracy ==
    LET h == CountOf("TOGGLE_SUCCESS")
        m == CountOf("MISS")
        a == Summary.accuracy
    IN  IF h + m = 0
        THEN a = 0
        ELSE /\ 2 * a * (h + m) <= 2 * 10000 * h + (h + m)
             /\ 2 * a * (h + m) > 2 * 10000 * h - (h + m)

\* 7 hits and 3 misses: accuracy 70.00
C17_Witness ==
    /\ CountOf("TOGGLE_SUCCESS") = 7
    /\ CountOf("MISS") = 3
    /\ Summary.accuracy = 7000

\* C18: with h hits and m misses recorded, missToHitRatio is m / h rounded to
\* two decimals (half up) when h > 0, and m itself when h = 0.
C18_MissToHitRatio ==
    LET h == CountOf("TOGGLE_SUCCESS")
        m == CountOf("MISS")
        r == Summary.missToHitRatio
    IN  IF h = 0
        THEN r = 100 * m
        ELSE /\ 2 * r * h <= 2 * 100 * m + h
             /\ 2 * r * h > 2 * 100 * m - h

\* 7 hits and 3 misses: ratio 0.43
C18_Witness ==
    /\ currentSession.successfulHits = 7
    /\ currentSession.misses = 3
    /\ Summary.missToHitRatio = 43

\* the index of the last event of a type in the log, 0 when there is none
LastIndexOf(type) ==
    LET is == { i \in 1..Len(events) : events[i].type = type }
    IN  IF is = {} THEN 0 ELSE CHOOSE i \in is : \A j \in is : j <= i
\* the session time of the logPointingStart no logPointingEnd has followed yet
PendingPointingStart ==
    IF LastIndexOf("POINTING_START") > LastIndexOf("POINTING_END")
    THEN events[LastIndexOf("POINTING_START")].timestamp
    ELSE NullTime

\* C19: when logPointingEnd ends an interval that logPointingStart started d ms
\* earlier, at any session time, the dwell sample d is recorded exactly when
\* d > 500.
C19_DwellRecorded ==
    [][ (lastOp'.op = "logPointingEnd" /\ PendingPointingStart # NullTime) =>
          LET d == lastOp'.timestamp - PendingPointingStart
          IN  currentSession'.dwellTimes =
                 IF d > DWELL_THRESHOLD * TicksPerMs
                 THEN Append(currentSession.dwellTimes, d)
                 ELSE currentSession.dwellTimes ]_vars

\* C20: a toggle success given the pinch-start time t0 records an event whose
\* latency is the session time minus t0, for every t0, and that latency is one
\* of the samples averaged.
C20_LatencyRecorded ==
    [][ (lastOp'.op = "logToggleSuccess" /\ lastOp'.pinchStartTime # NullTime) =>
          LET latency == lastOp'.timestamp - lastOp'.pinchStartTime
          IN  /\ events'[Len(events')].type = "TOGGLE_SUCCESS"
              /\ events'[Len(events')].data.latency = latency
              /\ currentSession'.latencies = Append(currentSession.latencies, latency) ]_vars

\* the names of the summary rows, in the order of the export
SummaryRowNames ==
    <<"Accuracy", "Total Attempts", "Successful Hits", "Misses", "Near Misses",
      "Miss-to-Hit Ratio", "Average Latency", "Average Dwell Time", "Average FPS",
      "FPS Stability", "Session Duration", "Total Events", "Timestamp">>

\* C21: the exported text is the header 'Metric,Value,Unit,Description', the
\* thirteen summary rows in their fixed order, one blank line, then at once the
\* header 'Event ID,Type,...,Success', then one row per logged event in log order.
C21_ExportLayout ==
    lastOp.op = "exportToCSV" =>
        LET rows == lastOp.rows
        IN  /\ Len(rows) = 16 + Len(events)
            /\ rows[1] = TextLine("Metric,Value,Unit,Description")
            /\ \A i \in 1..13 : rows[1 + i].kind = "metric"
                                /\ rows[1 + i].name = SummaryRowNames[i]
            /\ rows[15] = TextLine("")
            /\ rows[16] = TextLine("Event ID,Type,Timestamp,Target ID,Latency,Dwell Time,Distance,Success")
            /\ \A i \in 1..Len(events) : rows[16 + i].kind = "event"
                                         /\ rows[16 + i].id = events[i].id

\* the pinch threshold the README documents: 0.1, in thousandths
PINCH_THRESHOLD == 100

\* C22: from the Open state, a frame whose thumb-tip to index-tip distance is
\* below the documented threshold of 0.1 puts the classifier in the Pinching
\* state.
C22_PinchBelowDocumentedThreshold ==
    [][ ( /\ FrameStep
          /\ ~isPinching /\ ~lastPinchStateRef
          /\ calculatePinchDistance(landmarks') # NullDistance
          /\ calculatePinchDistance(landmarks') < PINCH_THRESHOLD )
        => isPinching' /\ lastPinchStateRef' ]_vars

\* C23: the frame-rate window never holds more than 60 samples; a tick appends
\* its sample and, when the window is full, drops the oldest one; averageFPS and
\* fpsStability are recomputed from the window on a tick that leaves at least
\* 10 samples in it, and keep their values on every other tick.
C23_WindowSlides ==
    [][ /\ Len(fpsHistory') <= FPS_SAMPLE_SIZE
        /\ lastOp'.op = "trackFPS" =>
              /\ fpsHistory' = IF Len(fpsHistory) < FPS_SAMPLE_SIZE
                               THEN Append(fpsHistory, lastOp'.fps)
                               ELSE Append(Tail(fpsHistory), lastOp'.fps)
              /\ systemMetrics' = IF Len(fpsHistory') >= 10
                                  THEN FpsStatistics(fpsHistory')
                                  ELSE systemMetrics ]_vars

\* the window has slid: 61 samples arrived, the first is gone, the newest is
\* last and differs from the oldest kept
C23_Witness ==
    /\ calls = 61
    /\ lastOp.op = "trackFPS"
    /\ Len(fpsHistory) = FPS_SAMPLE_SIZE
    /\ fpsHistory[FPS_SAMPLE_SIZE] = lastOp.fps
    /\ fpsHistory[1] # fpsHistory[FPS_SAMPLE_SIZE]
    /\ systemMetrics = FpsStatistics(fpsHistory)

\* the window holds the same rate throughout
ConstantWindow(fps) == \A i \in 1..Len(fpsHistory) : fpsHistory[i] = fps
\* the window holds the rates a and b in turn
AlternatingWindow(a, b) ==
    \A i \in 1..Len(fpsHistory) :
        /\ fpsHistory[i] \in {a, b}
        /\ i > 1 => fpsHistory[i] # fpsHistory[i - 1]

C25_StoppedLoopStaysStopped ==
    [][ /\ \A i \in 1..Len(frameLoop.loops) :
              frameLoop.loops[i].stopped =>
                 /\ frameLoop'.loops[i].frames = frameLoop.loops[i].frames
                 /\ \A c \in frameLoop'.scheduled : c.loop # i
        /\ <<fpsHistory, lastFrameTime, systemMetrics>>' # <<fpsHistory, lastFrameTime, systemMetrics>>
              => \E i \in 1..Len(frameLoop'.loops) :
                    \/ i > Len(frameLoop.loops)
                    \/ /\ ~frameLoop.loops[i].stopped
                       /\ frameLoop'.loops[i].frames = frameLoop.loops[i].frames + 1 ]_vars

\* the first loop ran several frames and was stopped; the second loop has
\* tracked frames since
C25_Witness ==
    /\ Len(frameLoop.loops) = 2
    /\ frameLoop.loops[1].stopped
    /\ frameLoop.loops[1].frames >= 2
    /\ ~frameLoop.loops[2].stopped
    /\ frameLoop.loops[2].frames >= 2
    /\ \E c \in frameLoop.scheduled : c.loop = 2

\* C26: in every state of the aggregator, whatever was recorded and reset,
\* totalAttempts = successfulHits + misses, nearMisses <= misses, and there are
\* no more latency samples than successful hits.
C26_CountersAgree ==
    /\ currentSession.totalAttempts = currentSession.successfulHits + currentSession.misses
    /\ currentSession.nearMisses <= currentSession.misses
    /\ Len(currentSession.latencies) <= currentSession.successfulHits

\* after a reset: a hit with a latency sample and a near miss
C26_Witness ==
    /\ currentSession.startTime # NullTime
    /\ currentSession.successfulHits = 1
    /\ Len(currentSession.latencies) = 1
    /\ currentSession.misses = 1
    /\ currentSession.nearMisses = 1

\* C27: over any sequence of frames, null and short ones included, the events
\* delivered to the pinch observer are pinch_start, pinch_end, pinch_start, ...
\* in strict alternation, beginning with pinch_start.
C27_EventsAlternate ==
    \A i \in 1..Len(delivered) :
        delivered[i].type = IF i % 2 = 1 THEN "pinch_start" ELSE "pinch_end"

\* start, end and start again were delivered, and then a null frame arrived
C27_Witness ==
    /\ Types(delivered) = <<"pinch_start", "pinch_end", "pinch_start">>
    /\ frameNo > delivered[3].frame
    /\ landmarks = NULL

\* the indices of the events of a type for a target
IndicesOf(type, targetId) ==
    { i \in 1..Len(events) : events[i].type = type /\ events[i].data.targetId = targetId }
\* the greatest member of a set of indices, 0 when it is empty
Greatest(is) == IF is = {} THEN 0 ELSE CHOOSE i \in is : \A j \in is : j <= i
\* the session time at which the open pointing interval of a target started:
\* its last logPointingStart, unless a logPointingEnd of the target has followed
OpenPointingStart(targetId) ==
    LET s == Greatest(IndicesOf("POINTING_START", targetId))
        e == Greatest(IndicesOf("POINTING_END", targetId))
    IN  IF s > e THEN events[s].timestamp ELSE NullTime

\* C28: logPointingEnd(T) records the time elapsed since the pointing start of
\* the same target T, and dwell 0 with no sample when T has no open interval.
\* (Intervals that start at session time 0 are left to C19.)
C28_DwellOfSameTarget ==
    [][ ( /\ lastOp'.op = "logPointingEnd"
          /\ \A i \in 1..Len(events) :
                events[i].type = "POINTING_START" => events[i].timestamp # 0 )
        => LET start == OpenPointingStart(lastOp'.targetId)
               dwell == IF start = NullTime THEN 0 ELSE lastOp'.timestamp - start
           IN  /\ events'[Len(events')].data.dwellTime = dwell
               /\ currentSession'.dwellTimes =
                     IF dwell > DWELL_THRESHOLD * TicksPerMs
                     THEN Append(currentSession.dwellTimes, dwell)
                     ELSE currentSession.dwellTimes ]_vars

\* the candidates the ray drawn by the visualizer meets
VisualizedHits ==
    { i \in Candidates :
        Intersects(RayVisualizerMouse(getFingerTipPosition(landmarks)), bulbRefs[i].mesh) }

\* C29: for every fingertip position the ray drawn by the visualizer goes
\* through the point the ray caster uses, ndc = (2x - 1, 1 - 2y), so the drawn
\* ray meets a target exactly when the hit test reports that target.
C29_VisualizedRayIsHitTestRay ==
    (frameNo = 1 /\ camera /\ HasFingertip) =>
        /\ RayVisualizerMouse(getFingerTipPosition(landmarks)) = FingertipNdc
        /\ hitInfo = NULL => VisualizedHits = {}
        /\ hitInfo # NULL => \E i \in VisualizedHits : bulbRefs[i].id = hitInfo.bulbId

\* C30: in every state the timestamps of the events in the log are
\* non-decreasing in log order, whatever was recorded, evicted and reset.
C30_TimestampsInOrder ==
    \A i \in 1..Len(events) :
        i > 1 => events[i - 1].timestamp <= events[i].timestamp

\* after a reset, two events of the new session, the second later than the first
C30_Witness ==
    /\ currentSession.startTime # NullTime
    /\ Len(events) = 2
    /\ events[1].timestamp < events[2].timestamp

====
